---------------------------- MODULE Spec2Model ----------------------------
(***************************************************************************)
(* Compaqt: the lexical minifier (compaqt/minify_c.py), the semantic       *)
(* sentence reducer (compaqt/minify_semantic.py), the token boundary       *)
(* mapper and the savings fields of the results of app.py.                 *)
(*                                                                         *)
(* Text is a sequence of one-character strings.  Input positions are       *)
(* 0-based as in the Python source (code[i] is At(code, i)); the ghost     *)
(* sequences src and cls name input positions 1-based.                     *)
(***************************************************************************)
EXTENDS Integers, Sequences, FiniteSets, TLC

VARIABLES
    pc,             \* control point of the call being modelled
    code,           \* minify_c: the argument
    i,              \* minify_c: scan position (0-based)
    state,          \* minify_c: the State enum value
    at_line_start,  \* minify_c: start-of-line tracking
    out,            \* minify_c: the characters appended to out, flattened
    ret,            \* minify_c: the returned string (NoValue before return)
    src,            \* ghost: for each character of out, the 1-based input
                    \*   position it was copied from; -k for the separating
                    \*   space inserted while consuming whitespace position k
    cls,            \* ghost: for each consumed input position, the lexical
                    \*   class the scanner gave it (the state it was consumed
                    \*   in; the characters of an opener belong to the state
                    \*   they open)
    prompt,             \* compress_prompt: the argument
    min_words,          \* compress_prompt: the argument
    ratio,              \* compress_prompt: the argument, [num, den]
    parts,              \* compress_prompt: the (sentence, delimiter) pairs
    part,               \* compress_prompt: index in parts of the for loop
    reduced_sentence,   \* compress_prompt: local of the while loop
    removed_word,       \* compress_prompt: local of the while loop
    compressed_prompt,  \* compress_prompt: the result so far
    reduced,            \* ghost: the reduced sentence of each finished part
    provider,           \* the embedding provider: Loaded, or how it fails
    calls,              \* ghost: most_redundant_word calls for this sentence
    removals,           \* ghost: the calls among them that removed a word
    before,             \* ghost: the sentence passed to the last call
    input,      \* the text given to a helper of minify_semantic.py
    span,       \* remove_word_at_span: the argument (start, end)
    pairs,      \* split_sentences_with_delimiters: the returned list
    shortened,  \* remove_word_at_span: the returned string
    token_bytes,    \* token_starts: the byte length of decode_single(t) for
                    \*   each token t of encode(text), in order
    text_bytes,     \* token_starts: the byte length of text
    starts,         \* token_starts: the offsets computed so far
    endpoint,           \* app.py: the route that serves the request
    original_tokens,    \* app.py: num_tokens of the original text
    compressed_tokens,  \* app.py: num_tokens of the compressed text
    response,           \* app.py: the savings fields of the JSON result
    workers,        \* concurrent minify_c calls: argument, locals, result
    overlapped,     \* ghost: a call took a step while another was under way
    phrase,         \* most_redundant_word: the argument sentence
    threshold,      \* most_redundant_word: the argument min_words
    sims,           \* most_redundant_word: the similarity scores
    answer,         \* most_redundant_word: the returned pair, or the error
    files,              \* pack_files: the argument, as minimized files
    token_budget,       \* pack_files: the argument
    minimized_files,    \* pack_files: the sorted list
    position,           \* pack_files: index of the packing loop
    included_files,     \* pack_files: local
    excluded_files,     \* pack_files: local
    current_tokens,     \* pack_files: local
    request,        \* compress_combined: code and elite_plus of the request
    encoder,        \* the Elite+ encoder: availability, outcome of compress
    elite_result,   \* compress_combined: local
    minimized_code, \* compress_combined: local
    producer,       \* ghost: what produced minimized_code
    flags           \* compress_combined: the elite_plus fields of the result

mvars == <<code, i, state, at_line_start, out, ret, src, cls>>

pvars ==
    <<prompt, min_words, ratio, parts, part, reduced_sentence, removed_word,
      compressed_prompt, reduced, provider, calls, removals, before>>

tvars == <<input, span, pairs, shortened>>

kvars == <<token_bytes, text_bytes, starts>>

rvars == <<endpoint, original_tokens, compressed_tokens, response>>

cvars == <<workers, overlapped>>

wvars == <<phrase, threshold, sims, answer>>

fvars ==
    <<files, token_budget, minimized_files, position, included_files,
      excluded_files, current_tokens>>

evars ==
    <<request, encoder, elite_result, minimized_code, producer, flags>>

nvars == <<wvars, fvars, evars>>

ovars == <<tvars, kvars, rvars, cvars, nvars>>

vars == <<pc, mvars, pvars, ovars>>

-----------------------------------------------------------------------------
(* Bounds and input alphabets *)

MaxLen == 4

NoValue == "NoValue"
IndexError == "IndexError"

\* The embedding provider (sentence_transformers): Loaded, or the point at
\* which it is unavailable: the import at line 3, the model load at line 10,
\* or the encode call at line 18.
Loaded == "Loaded"
ImportFails == "ImportFails"
LoadFails == "LoadFails"
EncodeFails == "EncodeFails"
Providers == {Loaded, ImportFails, LoadFails, EncodeFails}
ProviderError == "ProviderError"

NORMAL == "NORMAL"
LINE_COMMENT == "LINE_COMMENT"
BLOCK_COMMENT == "BLOCK_COMMENT"
STRING_STATE == "STRING"
CHAR == "CHAR"
PREPROCESSOR == "PREPROCESSOR"

State == {NORMAL, LINE_COMMENT, BLOCK_COMMENT, STRING_STATE, CHAR, PREPROCESSOR}

Letters ==
    {"a", "b", "c", "d", "e", "f", "g", "h", "i", "j", "k", "l", "m",
     "n", "o", "p", "q", "r", "s", "t", "u", "v", "w", "x", "y", "z",
     "A", "B", "C", "D", "E", "F", "G", "H", "I", "J", "K", "L", "M",
     "N", "O", "P", "Q", "R", "S", "T", "U", "V", "W", "X", "Y", "Z"}

Digits == {"0", "1", "2", "3", "4", "5", "6", "7", "8", "9"}

SpaceChars == {" ", "\n", "\t", "\r"}

\* The characters every input of length <= MaxLen is drawn from: one
\* identifier character, the two whitespace kinds the scanner tells apart,
\* and every character that starts or ends a lexical state.
Alphabet == {"a", " ", "\n", "/", "*", "\"", "'", "\\", "#"}

Scenario1In ==
    <<"i","n","t"," ","m","a","i","n","(",")","{"," ","/","/"," ",
      "h","e","l","l","o","\n"," "," ","r","e","t","u","r","n"," "," "," ",
      "0"," ",";"," ","}">>

Scenario1Out ==
    <<"i","n","t"," ","m","a","i","n","(",")","{",
      "r","e","t","u","r","n"," ","0",";","}">>

Scenario2In == <<"a"," "," ","+"," "," ","b">>

Scenario2Out == <<"a","+","b">>

Scenario3In == <<"f","o","o"," ","b","a","r">>

Scenario3Out == <<"f","o","o"," ","b","a","r">>

Scenarios == {Scenario1In, Scenario2In, Scenario3In}

\* The sublanguage of comments and whitespace between identifiers, which
\* is explored two characters deeper.
CommentAlphabet == {"a", " ", "\n", "/", "*"}

Strings(A, len) == UNION {[1..m -> A] : m \in 0..len}

Inputs ==
    Strings(Alphabet, MaxLen) \cup Strings(CommentAlphabet, MaxLen + 2)
        \cup Scenarios

-----------------------------------------------------------------------------
(* Helpers of minify_c *)

Last(s) == s[Len(s)]

SetMin(S) == CHOOSE x \in S : \A y \in S : x <= y

\* code[j], 0-based; Python raises IndexError past the end.
Idx(c0, j) == IF j >= 0 /\ j < Len(c0) THEN c0[j + 1] ELSE IndexError

At(c0, j) == Idx(c0, j)

\* OPERATORS after sorted(key=len, reverse=True): a stable sort, so each
\* length class keeps its order of appearance.
OPERATORS ==
    << <<">",">","=">>, <<"<","<","=">>,
       <<"+","+">>, <<"-","-">>, <<"-",">">>, <<"=","=">>, <<"!","=">>,
       <<"<","=">>, <<">","=">>, <<"&","&">>, <<"|","|">>, <<"+","=">>,
       <<"-","=">>, <<"*","=">>, <<"/","=">>, <<"%","=">>, <<"&","=">>,
       <<"|","=">>, <<"^","=">>, <<"<","<">>, <<">",">">>,
       <<"+">>, <<"-">>, <<"*">>, <<"/">>, <<"%">>, <<"=">>,
       <<"<">>, <<">">>, <<"!">>, <<"~">>,
       <<"&">>, <<"|">>, <<"^">>,
       <<"?">>, <<":">>, <<",">>, <<";">>,
       <<"(">>, <<")">>, <<"[">>, <<"]">>, <<"{">>, <<"}">> >>

is_ident_char(c) == c \in Letters \cup Digits \cup {"_"}

isspace(c) == c \in SpaceChars

\* code.startswith(op, i)
startswith(c0, op, j) ==
    /\ j + Len(op) <= Len(c0)
    /\ \A k \in 1..Len(op) : c0[j + k] = op[k]

\* The operator the greedy loop appends at position j: the first entry of
\* OPERATORS that matches, <<>> when none does.
MatchOperator(c0, j) ==
    LET hits == {k \in 1..Len(OPERATORS) : startswith(c0, OPERATORS[k], j)}
    IN  IF hits = {} THEN <<>> ELSE OPERATORS[SetMin(hits)]

Rep(x, m) == [k \in 1..m |-> x]

Positions(j, m) == [k \in 1..m |-> j + k]

-----------------------------------------------------------------------------
(* One iteration of the scan loop of minify_c, by branch.  A scanner value  *)
(* s is the record of the call's locals [i, state, at_line_start, out],     *)
(* the ghosts [src, cls] and exc, which is TRUE when the iteration indexed  *)
(* code past its end.                                                       *)

\* Append the m input characters at s.i .. s.i+m-1 to out, class them q.
Emit(c0, s, m, q) ==
    [s EXCEPT !.out = @ \o [k \in 1..m |-> Idx(c0, s.i + k - 1)],
              !.src = @ \o Positions(s.i, m),
              !.cls = @ \o Rep(q, m),
              !.i = @ + m,
              !.exc = \E k \in 1..m : Idx(c0, s.i + k - 1) = IndexError]

\* Consume m input characters without appending, class them q.
Skip(s, m, q) ==
    [s EXCEPT !.cls = @ \o Rep(q, m), !.i = @ + m]

\* Which branch of the NORMAL block (lines 36-99) the iteration takes.
NormalBranch(c0, s) ==
    LET n == Len(c0)
        c == At(c0, s.i)
    IN  IF s.at_line_start /\ c = "#" THEN "preprocessor"
        ELSE IF c = "/" /\ s.i + 1 < n /\ Idx(c0, s.i + 1) = "/"
            THEN "line_comment"
        ELSE IF c = "/" /\ s.i + 1 < n /\ Idx(c0, s.i + 1) = "*"
            THEN "block_comment"
        ELSE IF c = "\"" THEN "string"
        ELSE IF c = "'" THEN "char"
        ELSE IF isspace(c) THEN "space"
        ELSE IF MatchOperator(c0, s.i) # <<>> THEN "operator"
        ELSE "character"

\* lines 38-43
NormalPreprocessor(c0, s) ==
    [Emit(c0, s, 1, PREPROCESSOR) EXCEPT
        !.state = PREPROCESSOR, !.at_line_start = FALSE]

\* lines 47-50
NormalLineComment(c0, s) ==
    [Skip(s, 2, LINE_COMMENT) EXCEPT !.state = LINE_COMMENT]

\* An opener that consumes only its `/`, so that its `*` is read again.
NormalBlockCommentReusesStar(c0, s) ==
    [Skip(s, 1, BLOCK_COMMENT) EXCEPT !.state = BLOCK_COMMENT]

\* lines 51-54
NormalBlockComment(c0, s) ==
    [Skip(s, 2, BLOCK_COMMENT) EXCEPT !.state = BLOCK_COMMENT]

\* lines 57-61
NormalString(c0, s) ==
    [Emit(c0, s, 1, STRING_STATE) EXCEPT !.state = STRING_STATE]

\* lines 63-67
NormalChar(c0, s) ==
    [Emit(c0, s, 1, CHAR) EXCEPT !.state = CHAR]

\* A test that looks only at the character before the whitespace.
NeedsSpaceIgnoresNext(c0, s) ==
    /\ s.out # <<>>
    /\ is_ident_char(Last(s.out))

\* A test that looks only at the character after the whitespace.
NeedsSpaceIgnoresPrev(c0, s) ==
    /\ s.out # <<>>
    /\ LET nextc == IF s.i + 1 < Len(c0) THEN Idx(c0, s.i + 1) ELSE ""
       IN  is_ident_char(nextc)

\* lines 72-76: whether the whitespace character at s.i appends " ".
NeedsSpace(c0, s) ==
    /\ s.out # <<>>
    /\ LET prev == Last(s.out)
           nextc == IF s.i + 1 < Len(c0) THEN Idx(c0, s.i + 1) ELSE ""
       IN  is_ident_char(prev) /\ is_ident_char(nextc)

\* lines 70-81
NormalSpace(c0, s) ==
    LET c == At(c0, s.i)
        t == IF NeedsSpace(c0, s)
                THEN [s EXCEPT !.out = Append(@, " "),
                               !.src = Append(@, -(s.i + 1))]
                ELSE s
    IN  [Skip(t, 1, NORMAL) EXCEPT
            !.at_line_start = IF c = "\n" THEN TRUE ELSE @]

\* lines 84-94
NormalOperator(c0, s) ==
    [Emit(c0, s, Len(MatchOperator(c0, s.i)), NORMAL) EXCEPT
        !.at_line_start = FALSE]

\* lines 97-99
NormalCharacter(c0, s) ==
    [Emit(c0, s, 1, NORMAL) EXCEPT !.at_line_start = FALSE]

\* A scanner that lets a `/*` inside a line comment open a block comment.
StepLineCommentOpensBlock(c0, s) ==
    LET c == At(c0, s.i)
    IN  IF c = "/" /\ s.i + 1 < Len(c0) /\ Idx(c0, s.i + 1) = "*"
            THEN [Skip(s, 2, LINE_COMMENT) EXCEPT !.state = BLOCK_COMMENT]
        ELSE [Skip(s, 1, LINE_COMMENT) EXCEPT
                !.state = IF c = "\n" THEN NORMAL ELSE @,
                !.at_line_start = IF c = "\n" THEN TRUE ELSE @]

\* lines 101-105
StepLineComment(c0, s) ==
    LET c == At(c0, s.i)
    IN  [Skip(s, 1, LINE_COMMENT) EXCEPT
            !.state = IF c = "\n" THEN NORMAL ELSE @,
            !.at_line_start = IF c = "\n" THEN TRUE ELSE @]

\* A scanner that copies the inside of a block comment.
StepBlockCommentCopies(c0, s) ==
    LET c == At(c0, s.i)
    IN  IF c = "*" /\ s.i + 1 < Len(c0) /\ Idx(c0, s.i + 1) = "/"
            THEN [Skip(s, 2, BLOCK_COMMENT) EXCEPT !.state = NORMAL]
            ELSE Emit(c0, s, 1, BLOCK_COMMENT)

\* A scanner that takes a `*` at the end of the input for a closing `*/`.
StepBlockCommentOvershoots(c0, s) ==
    LET c == At(c0, s.i)
    IN  IF c = "*" /\ (~(s.i + 1 < Len(c0)) \/ Idx(c0, s.i + 1) = "/")
            THEN [Skip(s, 2, BLOCK_COMMENT) EXCEPT !.state = NORMAL]
            ELSE Skip(s, 1, BLOCK_COMMENT)

\* lines 107-112
StepBlockComment(c0, s) ==
    LET c == At(c0, s.i)
    IN  IF c = "*" /\ s.i + 1 < Len(c0) /\ Idx(c0, s.i + 1) = "/"
            THEN [Skip(s, 2, BLOCK_COMMENT) EXCEPT !.state = NORMAL]
            ELSE Skip(s, 1, BLOCK_COMMENT)

\* A scanner that copies the character after a backslash without the
\* `i + 1 < n` test.
StepLiteralUnguarded(c0, s, quote) ==
    LET c == At(c0, s.i)
    IN  IF c = "\\"
            THEN Emit(c0, s, 2, s.state)
        ELSE IF c = quote
            THEN [Emit(c0, s, 1, s.state) EXCEPT !.state = NORMAL]
        ELSE Emit(c0, s, 1, s.state)

\* A scanner that copies a backslash like any other character.
StepLiteralNoEscape(c0, s, quote) ==
    LET c == At(c0, s.i)
    IN  IF c = quote
            THEN [Emit(c0, s, 1, s.state) EXCEPT !.state = NORMAL]
        ELSE Emit(c0, s, 1, s.state)

\* A scanner that copies the backslash of an escape but not the character
\* after it.
StepLiteralDropsEscaped(c0, s, quote) ==
    LET c == At(c0, s.i)
    IN  IF c = "\\" /\ s.i + 1 < Len(c0)
            THEN Skip(Emit(c0, s, 1, s.state), 1, s.state)
        ELSE IF c = quote
            THEN [Emit(c0, s, 1, s.state) EXCEPT !.state = NORMAL]
        ELSE Emit(c0, s, 1, s.state)

\* lines 114-123 (STRING, quote "\"") and 125-134 (CHAR, quote "'")
StepLiteral(c0, s, quote) ==
    LET c == At(c0, s.i)
    IN  IF c = "\\" /\ s.i + 1 < Len(c0)
            THEN Emit(c0, s, 2, s.state)
        ELSE IF c = quote
            THEN [Emit(c0, s, 1, s.state) EXCEPT !.state = NORMAL]
        ELSE Emit(c0, s, 1, s.state)

\* lines 114-123
StepString(c0, s) == StepLiteral(c0, s, "\"")

\* lines 125-134
StepChar(c0, s) == StepLiteral(c0, s, "'")

\* A scanner that leaves PREPROCESSOR at the newline without copying it.
StepPreprocessorDropsNewline(c0, s) ==
    LET c == At(c0, s.i)
    IN  IF c = "\n"
            THEN [Skip(s, 1, PREPROCESSOR) EXCEPT
                    !.state = NORMAL, !.at_line_start = TRUE]
            ELSE Emit(c0, s, 1, PREPROCESSOR)

\* lines 136-141
StepPreprocessor(c0, s) ==
    LET c == At(c0, s.i)
    IN  [Emit(c0, s, 1, PREPROCESSOR) EXCEPT
            !.state = IF c = "\n" THEN NORMAL ELSE @,
            !.at_line_start = IF c = "\n" THEN TRUE ELSE @]

\* lines 36-99
StepNormal(c0, s) ==
    LET b == NormalBranch(c0, s)
    IN  CASE b = "preprocessor" -> NormalPreprocessor(c0, s)
          [] b = "line_comment" -> NormalLineComment(c0, s)
          [] b = "block_comment" -> NormalBlockComment(c0, s)
          [] b = "string" -> NormalString(c0, s)
          [] b = "char" -> NormalChar(c0, s)
          [] b = "space" -> NormalSpace(c0, s)
          [] b = "operator" -> NormalOperator(c0, s)
          [] OTHER -> NormalCharacter(c0, s)

\* The body of `while i < n` (lines 34-141).
ScanStep(c0, s) ==
    CASE s.state = NORMAL -> StepNormal(c0, s)
      [] s.state = LINE_COMMENT -> StepLineComment(c0, s)
      [] s.state = BLOCK_COMMENT -> StepBlockComment(c0, s)
      [] s.state = STRING_STATE -> StepString(c0, s)
      [] s.state = CHAR -> StepChar(c0, s)
      [] s.state = PREPROCESSOR -> StepPreprocessor(c0, s)

\* lines 27-31
ScanInit ==
    [i |-> 0, state |-> NORMAL, at_line_start |-> TRUE, out |-> <<>>,
     src |-> <<>>, cls |-> <<>>, exc |-> FALSE]

RECURSIVE ScanLoop(_, _)
\* lines 33-143: run the loop to its end; the scanner value at return, or
\* the one whose iteration raised.
ScanLoop(c0, s) ==
    IF s.exc \/ ~(s.i < Len(c0)) THEN s ELSE ScanLoop(c0, ScanStep(c0, s))

\* minify_c(code) as a function of its argument: the returned string, or
\* IndexError when the scan raises.
minify_c(c0) ==
    LET s == ScanLoop(c0, ScanInit)
    IN  IF s.exc THEN IndexError ELSE s.out

-----------------------------------------------------------------------------
(* minify_c as a state machine: one action per branch of the loop body *)

\* The call's locals as a scanner value.
Cur ==
    [i |-> i, state |-> state, at_line_start |-> at_line_start, out |-> out,
     src |-> src, cls |-> cls, exc |-> FALSE]

\* Store the scanner value an iteration produced; an IndexError ends the call.
Store(s) ==
    /\ i' = s.i
    /\ state' = s.state
    /\ at_line_start' = s.at_line_start
    /\ out' = s.out
    /\ src' = s.src
    /\ cls' = s.cls
    /\ pc' = IF s.exc THEN "raised" ELSE "scan"
    /\ UNCHANGED <<code, ret, pvars, ovars>>

\* `while i < n` holds and the loop body runs in state q.
Looping(q) == pc = "scan" /\ i < Len(code) /\ state = q

Iterate == Store(ScanStep(code, Cur))

\* No compress_prompt call is in progress.
NoPrompt ==
    /\ prompt = <<>>
    /\ min_words = 0
    /\ ratio = [num |-> 1, den |-> 1]
    /\ parts = <<>>
    /\ part = 0
    /\ reduced_sentence = <<>>
    /\ removed_word = NoValue
    /\ compressed_prompt = <<>>
    /\ reduced = <<>>
    /\ provider = Loaded
    /\ calls = 0
    /\ removals = 0
    /\ before = <<>>

NoText ==
    /\ input = <<>>
    /\ span = <<0, 0>>
    /\ pairs = NoValue
    /\ shortened = NoValue

NoTokens ==
    /\ token_bytes = <<>>
    /\ text_bytes = 0
    /\ starts = <<>>

NoReport ==
    /\ endpoint = NoValue
    /\ original_tokens = 0
    /\ compressed_tokens = 0
    /\ response = NoValue

NoWorkers ==
    /\ workers = <<>>
    /\ overlapped = FALSE

NoWord ==
    /\ phrase = <<>>
    /\ threshold = 0
    /\ sims = <<>>
    /\ answer = NoValue

NoPack ==
    /\ files = <<>>
    /\ token_budget = 0
    /\ minimized_files = <<>>
    /\ position = 0
    /\ included_files = <<>>
    /\ excluded_files = <<>>
    /\ current_tokens = 0

NoElite ==
    /\ request = NoValue
    /\ encoder = NoValue
    /\ elite_result = NoValue
    /\ minimized_code = <<>>
    /\ producer = NoValue
    /\ flags = NoValue

NoNew == NoWord /\ NoPack /\ NoElite

NoOther == NoText /\ NoTokens /\ NoReport /\ NoWorkers /\ NoNew

InitMinify ==
    /\ pc = "scan"
    /\ NoPrompt
    /\ NoOther
    /\ code \in Inputs
    /\ i = ScanInit.i
    /\ state = ScanInit.state
    /\ at_line_start = ScanInit.at_line_start
    /\ out = ScanInit.out
    /\ src = ScanInit.src
    /\ cls = ScanInit.cls
    /\ ret = NoValue

ScanPreprocessorStart ==
    Looping(NORMAL) /\ NormalBranch(code, Cur) = "preprocessor" /\ Iterate

ScanLineCommentStart ==
    Looping(NORMAL) /\ NormalBranch(code, Cur) = "line_comment" /\ Iterate

ScanBlockCommentStart ==
    Looping(NORMAL) /\ NormalBranch(code, Cur) = "block_comment" /\ Iterate

ScanStringStart ==
    Looping(NORMAL) /\ NormalBranch(code, Cur) = "string" /\ Iterate

ScanCharStart ==
    Looping(NORMAL) /\ NormalBranch(code, Cur) = "char" /\ Iterate

ScanSpace ==
    Looping(NORMAL) /\ NormalBranch(code, Cur) = "space" /\ Iterate

ScanOperator ==
    Looping(NORMAL) /\ NormalBranch(code, Cur) = "operator" /\ Iterate

ScanCharacter ==
    Looping(NORMAL) /\ NormalBranch(code, Cur) = "character" /\ Iterate

ScanLineComment == Looping(LINE_COMMENT) /\ Iterate

ScanBlockComment == Looping(BLOCK_COMMENT) /\ Iterate

ScanString == Looping(STRING_STATE) /\ Iterate

ScanChar == Looping(CHAR) /\ Iterate

ScanPreprocessor == Looping(PREPROCESSOR) /\ Iterate

\* line 143
Return ==
    /\ pc = "scan"
    /\ ~(i < Len(code))
    /\ ret' = out
    /\ pc' = "done"
    /\ UNCHANGED <<code, i, state, at_line_start, out, src, cls, pvars,
                   ovars>>

Next ==
    \/ ScanPreprocessorStart
    \/ ScanLineCommentStart
    \/ ScanBlockCommentStart
    \/ ScanStringStart
    \/ ScanCharStart
    \/ ScanSpace
    \/ ScanOperator
    \/ ScanCharacter
    \/ ScanLineComment
    \/ ScanBlockComment
    \/ ScanString
    \/ ScanChar
    \/ ScanPreprocessor
    \/ Return

Spec == InitMinify /\ [][Next]_vars

-----------------------------------------------------------------------------
(* Claims about minify_c *)

Done == pc = "done"

\* C1: minify_c is idempotent: for every input x,
\* minify_c(minify_c(x)) = minify_c(x).
C1_Idempotent == Done => minify_c(ret) = ret

\* Input position k was appended to out.
Emitted(k) == \E p \in 1..Len(out) : src[p] = k

OutPos(k) == CHOOSE p \in 1..Len(out) : src[p] = k

\* The ghosts describe the scan: every appended character is the input
\* character at its origin, origins increase, and cls covers what was read.
GhostsOk ==
    /\ Len(src) = Len(out)
    /\ pc # "raised" => Len(cls) = i
    /\ \A p \in 1..Len(out) :
        /\ src[p] # 0
        /\ src[p] > 0 => src[p] <= Len(code)
        /\ src[p] < 0 => -src[p] <= Len(code)
    /\ \A p \in 1..(Len(out) - 1) :
        (IF src[p] > 0 THEN src[p] ELSE -src[p] - 1) <
            (IF src[p + 1] > 0 THEN src[p + 1] ELSE -src[p + 1])

\* C2: two identifier characters emitted in NORMAL state are adjacent in the
\* output only if they were adjacent in the input; identifier characters the
\* input separates by whitespace or a removed comment are separated by a
\* space in the output.
C2_WhitespaceMerge ==
    \A p \in 1..(Len(out) - 1) :
        ( /\ src[p] > 0 /\ src[p + 1] > 0
          /\ cls[src[p]] = NORMAL /\ cls[src[p + 1]] = NORMAL
          /\ is_ident_char(out[p]) /\ is_ident_char(out[p + 1]) )
        => src[p + 1] = src[p] + 1

LiteralClass == {STRING_STATE, CHAR}

\* C3: every character consumed in STRING or CHAR state, from the opening
\* quote on, is appended to the output unchanged; each literal of the input
\* is verbatim and contiguous in the output, in the same relative order.
C3_ContentPreserved ==
    /\ GhostsOk
    /\ \A p \in 1..Len(out) : src[p] > 0 => out[p] = code[src[p]]
    /\ \A k \in 1..Len(cls) : cls[k] \in LiteralClass => Emitted(k)
    /\ \A k \in 1..(Len(cls) - 1) :
        (cls[k] \in LiteralClass /\ cls[k + 1] \in LiteralClass)
        => (Emitted(k) /\ Emitted(k + 1) /\ OutPos(k + 1) = OutPos(k) + 1)

\* C3 witness: a string literal holding an escaped quote was scanned to its
\* closing quote and returned.
C3_Witness ==
    /\ Done
    /\ state = NORMAL
    /\ \E k \in 1..(Len(cls) - 2) :
        /\ cls[k] = STRING_STATE /\ code[k] = "\\" /\ code[k + 1] = "\""
        /\ cls[k + 2] = STRING_STATE /\ code[k + 2] = "\""

RECURSIVE RefComments(_, _, _, _)
\* The comments of a C text by the language's own rule, with no notion of
\* directive lines: the 1-based positions of every // up to (not including)
\* its newline and of every /* up to its */ that start outside a string or
\* char literal.  mode is "code", "line", "block", "\"" or "'".
RefComments(c0, k, mode, acc) ==
    IF k > Len(c0) THEN acc
    ELSE LET c == c0[k]
             la == IF k < Len(c0) THEN c0[k + 1] ELSE ""
         IN  CASE mode = "code" ->
                    IF c = "/" /\ la = "/"
                        THEN RefComments(c0, k + 2, "line", acc \cup {k, k + 1})
                    ELSE IF c = "/" /\ la = "*"
                        THEN RefComments(c0, k + 2, "block", acc \cup {k, k + 1})
                    ELSE IF c \in {"\"", "'"}
                        THEN RefComments(c0, k + 1, c, acc)
                    ELSE RefComments(c0, k + 1, "code", acc)
               [] mode = "line" ->
                    IF c = "\n"
                        THEN RefComments(c0, k + 1, "code", acc)
                        ELSE RefComments(c0, k + 1, "line", acc \cup {k})
               [] mode = "block" ->
                    IF c = "*" /\ la = "/"
                        THEN RefComments(c0, k + 2, "code", acc \cup {k, k + 1})
                        ELSE RefComments(c0, k + 1, "block", acc \cup {k})
               [] OTHER ->
                    IF c = "\\" /\ k < Len(c0)
                        THEN RefComments(c0, k + 2, mode, acc)
                    ELSE IF c = mode
                        THEN RefComments(c0, k + 1, "code", acc)
                    ELSE RefComments(c0, k + 1, mode, acc)

CommentPositions(c0) == RefComments(c0, 1, "code", {})

CommentClass == {LINE_COMMENT, BLOCK_COMMENT}

C5_Scenario1 == (Done /\ code = Scenario1In) => ret = Scenario1Out

\* C5 witness: the scan of scenario 1 returned.
C5_Witness == Done /\ code = Scenario1In /\ Len(ret) = Len(Scenario1Out)

\* Input position k is whitespace consumed in NORMAL state.
NormalSpaceAt(k) ==
    k \in 1..Len(cls) /\ cls[k] = NORMAL /\ isspace(code[k])

\* a..b is a maximal run of whitespace consumed in NORMAL state.
SpaceRun(a, b) ==
    /\ a <= b
    /\ \A k \in a..b : NormalSpaceAt(k)
    /\ ~NormalSpaceAt(a - 1)
    /\ ~NormalSpaceAt(b + 1)

\* The output positions of the spaces inserted while consuming a..b.
InsertedFor(a, b) == {p \in 1..Len(out) : src[p] < 0 /\ -src[p] \in a..b}

\* The output positions appended before input position a was consumed.
OutBefore(a) ==
    {p \in 1..Len(out) : (IF src[p] > 0 THEN src[p] ELSE -src[p]) < a}

SetMax(S) == CHOOSE x \in S : \A y \in S : x >= y

\* Whether the run a..b stands between two identifier characters: the last
\* character emitted before it and the input character right after it.
BetweenIdentifiers(a, b) ==
    /\ OutBefore(a) # {}
    /\ is_ident_char(out[SetMax(OutBefore(a))])
    /\ b < Len(code)
    /\ is_ident_char(code[b + 1])

\* C6: a maximal whitespace run consumed in NORMAL state produces exactly
\* one space when the last emitted character and the first input character
\* after the run are identifier characters, and nothing otherwise; NORMAL
\* state emits no other whitespace ("a  +  b" gives "a+b", "foo bar" gives
\* "foo bar").
C6_SpaceRuns ==
    Done =>
        /\ \A a \in 1..Len(code) : \A b \in a..Len(code) :
            SpaceRun(a, b) =>
                IF BetweenIdentifiers(a, b)
                    THEN /\ InsertedFor(a, b) = {SetMax(OutBefore(a)) + 1}
                         /\ out[SetMax(OutBefore(a)) + 1] = " "
                    ELSE InsertedFor(a, b) = {}
        /\ \A p \in 1..Len(out) :
            /\ (src[p] > 0 /\ cls[src[p]] = NORMAL) => ~isspace(out[p])
            /\ src[p] < 0 => NormalSpaceAt(-src[p])
        /\ code = Scenario2In => ret = Scenario2Out
        /\ code = Scenario3In => ret = Scenario3Out

\* C6 witness: one scan met a run of two or more whitespace characters that
\* produced a space and a run that produced none.
C6_Witness ==
    /\ Done
    /\ \E a \in 1..Len(code) : \E b \in (a + 1)..Len(code) :
        SpaceRun(a, b) /\ BetweenIdentifiers(a, b)
    /\ \E a \in 1..Len(code) : \E b \in a..Len(code) :
        SpaceRun(a, b) /\ ~BetweenIdentifiers(a, b) /\ OutBefore(a) # {}

\* C7: minify_c is total: no scan raises or reads past the end of its input,
\* every iteration is handled by one of the six states and moves towards the
\* end of input, and the call returns, at end of input, everything emitted
\* so far.
C7_Total ==
    /\ pc \in {"scan", "done"}
    /\ state \in State
    /\ i <= Len(code)
    /\ (pc = "scan" /\ i < Len(code)) =>
        LET s == ScanStep(code, Cur)
        IN  ~s.exc /\ s.i > i /\ s.i <= Len(code)
    /\ Done => (i = Len(code) /\ ret = out /\ Len(cls) = Len(code))

\* C7 witness: a scan returned from inside an unterminated literal whose
\* last character is a lone backslash.
C7_Witness ==
    /\ Done
    /\ state \in LiteralClass
    /\ Len(code) >= 2
    /\ code[Len(code)] = "\\"
    /\ ret = code

\* C8: from the # that enters PREPROCESSOR state up to and including the
\* next newline (or the end of input) every input character is copied to
\* the output unchanged, and right after that newline the scanner is in
\* NORMAL state with at_line_start set.
C8_PreprocessorVerbatim ==
    /\ \A k \in 1..Len(cls) : cls[k] = PREPROCESSOR =>
        /\ Emitted(k) /\ out[OutPos(k)] = code[k]
        /\ (k = 1 \/ cls[k - 1] # PREPROCESSOR \/ code[k - 1] = "\n")
            => code[k] = "#"
        /\ (k < Len(cls) /\ code[k] # "\n") =>
            /\ cls[k + 1] = PREPROCESSOR
            /\ Emitted(k + 1)
            /\ OutPos(k + 1) = OutPos(k) + 1
    /\ (pc = "scan" /\ i > 0 /\ cls[i] = PREPROCESSOR) =>
        IF code[i] = "\n"
            THEN state = NORMAL /\ at_line_start
            ELSE state = PREPROCESSOR

\* C8 witness: a directive line was copied through its newline and the scan
\* went on in NORMAL state after it.
C8_Witness ==
    /\ Done
    /\ \E k \in 2..(Len(cls) - 1) :
        /\ cls[k] = PREPROCESSOR /\ code[k] = "\n"
        /\ cls[k + 1] = NORMAL

-----------------------------------------------------------------------------
(* The semantic sentence reducer (compaqt/minify_semantic.py) *)

MaxWords == 6

MaxMinWords == 6

\* The default of most_redundant_word's min_words parameter.
DefaultMinWords == 5

None == "None"

ValueError == "ValueError"

\* ratio as an exact fraction; 7/10 is compress_prompt's default.
Ratios ==
    {[num |-> 1, den |-> 10], [num |-> 7, den |-> 10], [num |-> 1, den |-> 1]}

\* What follows a word of a generated prompt: a space, punctuation without
\* a space, or a sentence delimiter.
Separators == {<<" ">>, <<",">>, <<".", " ">>}

Endings == {<<>>, <<".">>}

RECURSIVE PromptsOf(_)
\* The prompts of exactly m one-letter words.
PromptsOf(m) ==
    IF m = 0 THEN {<<>>}
    ELSE IF m = 1 THEN {<<"w">> \o e : e \in Endings}
    ELSE {<<"w">> \o sep \o rest : sep \in Separators, rest \in PromptsOf(m - 1)}

\* "The quick brown fox jumps over the lazy dog."
Scenario4Prompt ==
    <<"T", "h", "e", " ", "q", "u", "i", "c", "k", " ",
      "b", "r", "o", "w", "n", " ", "f", "o", "x", " ",
      "j", "u", "m", "p", "s", " ", "o", "v", "e", "r", " ",
      "t", "h", "e", " ", "l", "a", "z", "y", " ", "d", "o", "g", ".">>

PromptInputs ==
    UNION {PromptsOf(m) : m \in 0..MaxWords} \cup {Scenario4Prompt}

\* s[a:b] of Python, 0-based, end exclusive.
Slice(s, a, b) == SubSeq(s, a + 1, b)

RECURSIVE ReplaceCrLf(_)
\* text.replace("\r\n", "\n")
ReplaceCrLf(text) ==
    IF Len(text) < 2 THEN text
    ELSE IF text[1] = "\r" /\ text[2] = "\n"
        THEN <<"\n">> \o ReplaceCrLf(Slice(text, 2, Len(text)))
        ELSE <<text[1]>> \o ReplaceCrLf(Slice(text, 1, Len(text)))

\* The end (exclusive, 0-based) of the longest run of characters in S that
\* starts at j.
RECURSIVE RunEnd(_, _, _)
RunEnd(text, j, S) ==
    IF j < Len(text) /\ text[j + 1] \in S THEN RunEnd(text, j + 1, S) ELSE j

\* Group 2 of the pattern, ([.!?]\s+|\n+|$), tried at position j: the end of
\* the delimiter it matches there, -1 when no alternative matches.
DelimiterEnd(text, j) ==
    IF j < Len(text) /\ text[j + 1] \in {".", "!", "?"}
          /\ j + 1 < Len(text) /\ isspace(text[j + 2])
        THEN RunEnd(text, j + 1, SpaceChars)
    ELSE IF j < Len(text) /\ text[j + 1] = "\n"
        THEN RunEnd(text, j, {"\n"})
    ELSE IF j = Len(text) THEN j
    ELSE -1

\* Group 1, (.*?), is lazy: the first position at or after pos where group 2
\* matches.
RECURSIVE DelimiterStart(_, _)
DelimiterStart(text, pos) ==
    IF DelimiterEnd(text, pos) >= 0 THEN pos ELSE DelimiterStart(text, pos + 1)

RECURSIVE SplitFrom(_, _, _)
\* pattern.finditer(text) from pos on: the pairs with a non-empty sentence.
\* The last match, at the end of the text, is empty and is dropped.
SplitFrom(text, pos, acc) ==
    IF pos >= Len(text) THEN acc
    ELSE LET j == DelimiterStart(text, pos)
             e == DelimiterEnd(text, j)
             sentence == Slice(text, pos, j)
             delimiter == Slice(text, j, e)
         IN  SplitFrom(text, e,
                IF sentence # <<>>
                    THEN Append(acc, <<sentence, delimiter>>)
                    ELSE acc)

split_sentences_with_delimiters(text) == SplitFrom(ReplaceCrLf(text), 0, <<>>)

\* \w of the regular expression
isword(c) == c \in Letters \cup Digits \cup {"_"}

RECURSIVE SpansFrom(_, _, _)
\* re.finditer(r"\b\w+\b"): the maximal runs of word characters, as
\* [word, start, end] with end exclusive.
SpansFrom(s, k, acc) ==
    IF k >= Len(s) THEN acc
    ELSE IF isword(s[k + 1])
        THEN LET e == RunEnd(s, k, Letters \cup Digits \cup {"_"})
             IN  SpansFrom(s, e,
                    Append(acc, [word |-> Slice(s, k, e), start |-> k, end |-> e]))
        ELSE SpansFrom(s, k + 1, acc)

word_spans(sentence) == SpansFrom(sentence, 0, <<>>)

\* A removal that does nothing when no whitespace is next to the span.
remove_word_needs_space(sentence, start, end) ==
    LET s == sentence
    IN  IF end < Len(s) /\ isspace(s[end + 1])
            THEN Slice(s, 0, start) \o Slice(s, end + 1, Len(s))
        ELSE IF start > 0 /\ isspace(s[start])
            THEN Slice(s, 0, start - 1) \o Slice(s, end, Len(s))
        ELSE s

\* A removal that takes the whitespace on both sides of the span.
remove_word_both_sides(sentence, start, end) ==
    LET s == sentence
        e2 == IF end < Len(s) /\ isspace(s[end + 1]) THEN end + 1 ELSE end
        s2 == IF start > 0 /\ isspace(s[start]) THEN start - 1 ELSE start
    IN  Slice(s, 0, s2) \o Slice(s, e2, Len(s))

\* lines 85-100; span is (start, end), end exclusive.
remove_word_at_span(sentence, start, end) ==
    LET s == sentence
        e2 == IF end < Len(s) /\ isspace(s[end + 1]) THEN end + 1 ELSE end
        s2 == IF end < Len(s) /\ isspace(s[end + 1]) THEN start
              ELSE IF start > 0 /\ isspace(s[start]) THEN start - 1
              ELSE start
    IN  Slice(s, 0, s2) \o Slice(s, e2, Len(s))

\* modified.strip() is not empty
NotBlank(s) == \E k \in 1..Len(s) : ~isspace(s[k])

\* lines 24-31: the spans whose removal leaves a non-blank sentence.
Meta(sentence) ==
    SelectSeq(word_spans(sentence),
        LAMBDA sp : NotBlank(remove_word_at_span(sentence, sp.start, sp.end)))

\* The values int(np.argmax(sims)) can take: the embedding model decides,
\* so any candidate may score highest.
ArgmaxChoices(sentence) == 1..Len(Meta(sentence))

\* most_redundant_word(sentence, batch_size, min_words) when argmax returns
\* idx (1-based): the returned pair, or exc when np.argmax gets no scores.
most_redundant_word(sentence, batch_size, min_words0, idx) ==
    LET spans == word_spans(sentence)
        meta == Meta(sentence)
    IN  IF Len(spans) < min_words0
            THEN [reduced |-> sentence, word |-> None, exc |-> FALSE]
        ELSE IF meta = <<>>
            THEN [reduced |-> sentence, word |-> ValueError, exc |-> TRUE]
        ELSE [reduced |->
                remove_word_at_span(sentence, meta[idx].start, meta[idx].end),
              word |-> meta[idx].word, exc |-> FALSE]

\* The results the call at line 56 can have: min_words is passed as the
\* second positional argument, which is batch_size, so most_redundant_word
\* runs with its own default min_words.
CallMostRedundantWord(sentence, mw) ==
    {most_redundant_word(sentence, mw, DefaultMinWords, idx) :
        idx \in IF ArgmaxChoices(sentence) = {} THEN {1}
                ELSE ArgmaxChoices(sentence)}

\* lines 15-22: self.model.encode is reached once the word count passes the
\* threshold; nothing catches what it raises.
EncodeRaises(sentence) ==
    /\ provider = EncodeFails
    /\ Len(word_spans(sentence)) >= DefaultMinWords

CallWithProvider(sentence, mw) ==
    IF EncodeRaises(sentence)
        THEN {[reduced |-> sentence, word |-> ProviderError, exc |-> TRUE]}
        ELSE CallMostRedundantWord(sentence, mw)

\* The comparison of line 55 turned around.
AboveRatioInverted(red, sentence, r) ==
    Len(red) * r.den < r.num * Len(sentence)

\* len(reduced_sentence) / len(sentence) > ratio
AboveRatio(red, sentence, r) == Len(red) * r.den > r.num * Len(sentence)

NoMinify ==
    /\ code = <<>>
    /\ i = 0
    /\ state = NORMAL
    /\ at_line_start = TRUE
    /\ out = <<>>
    /\ ret = NoValue
    /\ src = <<>>
    /\ cls = <<>>

InitPrompt ==
    /\ pc = "split"
    /\ NoMinify
    /\ NoOther
    /\ prompt \in PromptInputs
    /\ min_words \in 1..MaxMinWords
    /\ ratio \in Ratios
    /\ parts = <<>>
    /\ part = 0
    /\ reduced_sentence = <<>>
    /\ removed_word = NoValue
    /\ compressed_prompt = <<>>
    /\ reduced = <<>>
    /\ provider = Loaded
    /\ calls = 0
    /\ removals = 0
    /\ before = <<>>

\* lines 50-51
Split ==
    /\ pc = "split"
    /\ parts' = split_sentences_with_delimiters(prompt)
    /\ compressed_prompt' = <<>>
    /\ pc' = "for"
    /\ UNCHANGED <<mvars, ovars, prompt, min_words, ratio, part,
                   reduced_sentence, removed_word, reduced, provider, calls,
                   removals, before>>

\* lines 53-54: the for loop takes the next pair.
ForNext ==
    /\ pc = "for"
    /\ part < Len(parts)
    /\ part' = part + 1
    /\ reduced_sentence' = parts[part + 1][1]
    /\ removed_word' = <<" ">>
    /\ calls' = 0
    /\ removals' = 0
    /\ before' = <<>>
    /\ pc' = "while"
    /\ UNCHANGED <<mvars, ovars, prompt, min_words, ratio, parts,
                   compressed_prompt, reduced, provider>>

\* The loop condition without its ratio test.
WhileConditionIgnoresRatio == removed_word # None

\* line 55
WhileCondition ==
    /\ AboveRatio(reduced_sentence, parts[part][1], ratio)
    /\ removed_word # None

\* lines 55-56: one iteration of the while loop.
WhileIterate ==
    /\ pc = "while"
    /\ WhileCondition
    /\ \E r \in CallWithProvider(reduced_sentence, min_words) :
        /\ reduced_sentence' = r.reduced
        /\ removed_word' = r.word
        /\ removals' = IF r.exc \/ r.word = None
                       THEN removals ELSE removals + 1
        /\ pc' = IF r.exc THEN "raised" ELSE "while"
    /\ calls' = calls + 1
    /\ before' = reduced_sentence
    /\ UNCHANGED <<mvars, ovars, prompt, min_words, ratio, parts, part,
                   compressed_prompt, reduced, provider>>

\* A loop exit that appends the reduced sentence without its delimiter.
WhileExitDropsDelimiter ==
    /\ pc = "while"
    /\ ~WhileCondition
    /\ compressed_prompt' = compressed_prompt \o reduced_sentence
    /\ reduced' = Append(reduced, reduced_sentence)
    /\ pc' = "for"
    /\ UNCHANGED <<mvars, ovars, prompt, min_words, ratio, parts, part,
                   reduced_sentence, removed_word, provider, calls, removals,
                   before>>

\* line 58
WhileExit ==
    /\ pc = "while"
    /\ ~WhileCondition
    /\ compressed_prompt' = compressed_prompt \o reduced_sentence \o parts[part][2]
    /\ reduced' = Append(reduced, reduced_sentence)
    /\ pc' = "for"
    /\ UNCHANGED <<mvars, ovars, prompt, min_words, ratio, parts, part,
                   reduced_sentence, removed_word, provider, calls, removals,
                   before>>

\* line 60
ReturnPrompt ==
    /\ pc = "for"
    /\ part = Len(parts)
    /\ pc' = "returned"
    /\ UNCHANGED <<mvars, ovars, pvars>>

NextPrompt ==
    \/ Split
    \/ ForNext
    \/ WhileIterate
    \/ WhileExit
    \/ ReturnPrompt

SpecPrompt == InitPrompt /\ [][NextPrompt]_vars

-----------------------------------------------------------------------------
(* Claims about compress_prompt *)

\* The number of words of a sentence.
WordCount(s) == Len(word_spans(s))

\* C9: for every sentence of the prompt and every min_words >= 1, the
\* reduced sentence never has fewer than min_words words, unless the
\* original sentence already had fewer than min_words words.
C9_ReductionBound ==
    \A q \in 1..Len(reduced) :
        \/ WordCount(reduced[q]) >= min_words
        \/ WordCount(parts[q][1]) < min_words

\* C10: the min_words the caller passes is the threshold applied to every
\* sentence: a sentence with fewer than min_words words is returned
\* unchanged.
C10_CallerThreshold ==
    \A q \in 1..Len(reduced) :
        WordCount(parts[q][1]) < min_words => reduced[q] = parts[q][1]

\* The iteration of the while loop of compress_prompt for the current
\* sentence has ended and its result was appended.
Halted == pc = "for" /\ part >= 1

\* C11: when the reduction loop of a sentence halts, either the reduced
\* sentence is at most ratio times as long as the original sentence, or the
\* last call to most_redundant_word removed no word (it returned None and its
\* argument unchanged); the loop never halts with the ratio still exceeded
\* right after a word was removed.
C11_ConvergenceOrEarlyStop ==
    Halted =>
        \/ Len(reduced_sentence) * ratio.den <= ratio.num * Len(parts[part][1])
        \/ /\ calls >= 1
           /\ removed_word = None
           /\ reduced_sentence = before

\* The loop removed words, then stopped on a call that removed nothing while
\* the ratio was still exceeded.
C11_Witness ==
    /\ Halted
    /\ removals >= 1
    /\ removed_word = None
    /\ Len(reduced_sentence) * ratio.den > ratio.num * Len(parts[part][1])

\* C12: for every sentence, ratio and min_words, the reduction loop runs at
\* most word_count(original sentence) - min_words iterations (none when the
\* sentence has fewer words than that).  The iterations counted are the
\* ones that removed a word: the call that finds nothing to remove ends the
\* loop.
C12_IterationBound ==
    (pc \in {"while", "for"} /\ part >= 1) =>
        LET bound == WordCount(parts[part][1]) - min_words
        IN  removals <= IF bound > 0 THEN bound ELSE 0

Scenario4Case ==
    /\ prompt = Scenario4Prompt
    /\ ratio = [num |-> 7, den |-> 10]
    /\ min_words = 5
    /\ part >= 1

\* C14: for the prompt "The quick brown fox jumps over the lazy dog." with
\* ratio 0.7 and min_words 5, whatever the argmax choices, compress_prompt
\* does not raise, every iteration removes exactly one word, the sentence
\* never has fewer than 5 words, and when the loop halts the result is at
\* most 0.7 of the original length or has exactly 5 words.
C14_Scenario4 ==
    Scenario4Case =>
        /\ pc # "raised"
        /\ removals = calls
        /\ WordCount(reduced_sentence) = WordCount(Scenario4Prompt) - calls
        /\ WordCount(reduced_sentence) >= 5
        /\ Halted =>
            \/ 10 * Len(reduced_sentence) <= 7 * Len(Scenario4Prompt)
            \/ WordCount(reduced_sentence) = 5

\* The scenario has returned after four removals, with 5 words left.
C14_Witness ==
    /\ Scenario4Case
    /\ pc = "returned"
    /\ calls = 4
    /\ WordCount(compressed_prompt) = 5

\* app.py lines 5 and 12-14 build the reducer before any request is served;
\* the provider may be unavailable at any of its three points of use.
InitProvider ==
    /\ pc = "import"
    /\ NoMinify
    /\ NoOther
    /\ prompt \in PromptInputs
    /\ min_words = DefaultMinWords
    /\ ratio \in Ratios
    /\ parts = <<>>
    /\ part = 0
    /\ reduced_sentence = <<>>
    /\ removed_word = NoValue
    /\ compressed_prompt = <<>>
    /\ reduced = <<>>
    /\ provider \in Providers
    /\ calls = 0
    /\ removals = 0
    /\ before = <<>>

\* minify_semantic.py line 3, run by the import at app.py line 5.
ImportModule ==
    /\ pc = "import"
    /\ pc' = IF provider = ImportFails THEN "raised" ELSE "construct"
    /\ UNCHANGED <<mvars, ovars, pvars>>

\* app.py line 13: MinifySemantic(), lines 6-10 of minify_semantic.py.
Construct ==
    /\ pc = "construct"
    /\ pc' = IF provider = LoadFails THEN "raised" ELSE "split"
    /\ UNCHANGED <<mvars, ovars, pvars>>

NextProvider ==
    \/ ImportModule
    \/ Construct
    \/ NextPrompt

SpecProvider == InitProvider /\ [][NextProvider]_vars

\* C15: if the embedding provider is unavailable (it cannot be imported,
\* loaded or called), nothing is raised and compress_prompt returns the
\* original prompt unchanged.
C15_ProviderFallback ==
    provider # Loaded =>
        /\ pc # "raised"
        /\ pc = "returned" => compressed_prompt = prompt

(***************************************************************************)
(* The helpers of minify_semantic.py on their own: each is applied to a    *)
(* text of at most MaxTextLen characters.                                  *)
(***************************************************************************)
MaxTextLen == 4

\* A word character, the sentence punctuation, and the whitespace kinds the
\* segmenter tells apart.
TextAlphabet == {"w", ".", " ", "\n", "\r"}

Texts == Strings(TextAlphabet, MaxTextLen)

InitText ==
    /\ pc = "input"
    /\ NoMinify
    /\ NoPrompt
    /\ NoNew
    /\ NoTokens
    /\ NoReport
    /\ NoWorkers
    /\ input \in Texts
    /\ span = <<0, 0>>
    /\ pairs = NoValue
    /\ shortened = NoValue

\* lines 62-78
SplitText ==
    /\ pc = "input"
    /\ pairs' = split_sentences_with_delimiters(input)
    /\ pc' = "segmented"
    /\ UNCHANGED <<mvars, pvars, nvars, kvars, rvars, cvars, input, span,
                   shortened>>

\* lines 85-100, for any span of the text
RemoveWord ==
    /\ pc = "input"
    /\ \E start \in 0..Len(input), end \in 0..Len(input) :
        /\ start < end
        /\ span' = <<start, end>>
        /\ shortened' = remove_word_at_span(input, start, end)
    /\ pc' = "removed"
    /\ UNCHANGED <<mvars, pvars, nvars, kvars, rvars, cvars, input, pairs>>

NextText ==
    \/ SplitText
    \/ RemoveWord

SpecText == InitText /\ [][NextText]_vars

RECURSIVE Joined(_)
\* sentence + delimiter over the pairs, in order
Joined(ps) ==
    IF ps = <<>> THEN <<>>
    ELSE ps[1][1] \o ps[1][2] \o Joined(Tail(ps))

\* C13: for every text, concatenating sentence + delimiter over all pairs
\* returned by split_sentences_with_delimiters, in order, yields the text
\* exactly, also when the text starts with a delimiter, has consecutive
\* delimiters or contains "\r\n".
C13_SegmentationRoundTrip ==
    pc = "segmented" => Joined(pairs) = input

RECURSIVE Without(_, _, _)
\* The characters of s from position k on (1-based) whose position is not
\* in D, in order.
Without(s, D, k) ==
    IF k > Len(s) THEN <<>>
    ELSE (IF k \in D THEN <<>> ELSE <<s[k]>>) \o Without(s, D, k + 1)

\* The whitespace character right after the span, right before it.
SpaceAfter == span[2] < Len(input) /\ isspace(input[span[2] + 1])
SpaceBefore == span[1] > 0 /\ isspace(input[span[1]])

\* The 1-based positions the claim lets remove_word_at_span delete: those
\* of [start, end), and one adjacent whitespace character when there is one,
\* the one after the span before the one in front of it.
Deleted ==
    (span[1] + 1)..span[2] \cup
        (IF SpaceAfter THEN {span[2] + 1}
         ELSE IF SpaceBefore THEN {span[1]}
         ELSE {})

\* C20: remove_word_at_span deletes the characters of [start, end) and
\* exactly one adjacent whitespace character when one exists, the one right
\* after the span if it is whitespace and otherwise the one right before;
\* never both; every other character is kept, in its order.
C20_RemoveWordAtSpan ==
    pc = "removed" =>
        /\ shortened = Without(input, Deleted, 1)
        /\ Len(input) - Len(shortened) =
            (span[2] - span[1]) + (IF SpaceAfter \/ SpaceBefore THEN 1 ELSE 0)

\* A span with whitespace on both sides was removed.
C20_Witness ==
    /\ pc = "removed"
    /\ SpaceAfter
    /\ SpaceBefore
    /\ Len(shortened) = Len(input) - (span[2] - span[1]) - 1

(***************************************************************************)
(* The token boundary mapper, Tokenizer.token_starts.  The tokenizer is    *)
(* external: encode(text) is any sequence of tokens, known here by the     *)
(* byte length of each token's decoded form.                               *)
(***************************************************************************)
MaxTokens == 3
MaxTokenBytes == 5

TokenLengths ==
    UNION {[1..n -> 0..MaxTokenBytes] : n \in 0..MaxTokens}

RECURSIVE Sum(_)
Sum(lens) == IF lens = <<>> THEN 0 ELSE lens[1] + Sum(Tail(lens))

\* The decoded tokens concatenate to the text, or the decode is lossy and
\* they do not.
InitTokens ==
    /\ pc = "map"
    /\ NoMinify
    /\ NoPrompt
    /\ NoNew
    /\ NoText
    /\ NoReport
    /\ NoWorkers
    /\ token_bytes \in TokenLengths
    /\ text_bytes \in {Sum(token_bytes), Sum(token_bytes) + 1}
    /\ starts = <<>>

\* An offset advanced by the byte length of the token itself instead of the
\* previous token's.
NextStartOwnLength(offsets, lens) ==
    IF offsets = <<>> THEN 0
    ELSE Last(offsets) + lens[Len(offsets) + 1]

\* The first token starts at 0; each later one at the previous start plus
\* the byte length of the previous token's decoded form.
NextStart(offsets, lens) ==
    IF offsets = <<>> THEN 0
    ELSE Last(offsets) + lens[Len(offsets)]

MapToken ==
    /\ pc = "map"
    /\ Len(starts) < Len(token_bytes)
    /\ starts' = Append(starts, NextStart(starts, token_bytes))
    /\ UNCHANGED <<pc, mvars, pvars, nvars, tvars, rvars, cvars, token_bytes,
                   text_bytes>>

ReturnStarts ==
    /\ pc = "map"
    /\ Len(starts) = Len(token_bytes)
    /\ pc' = "mapped"
    /\ UNCHANGED <<mvars, pvars, ovars>>

NextTokens ==
    \/ MapToken
    \/ ReturnStarts

SpecTokens == InitTokens /\ [][NextTokens]_vars

\* C16: token_starts(text) has one entry per token of encode(text); the
\* first entry is 0 and each later entry is the previous entry plus the byte
\* length of the previous token's decoded form, so the entries never
\* decrease; when the decoded tokens concatenate to the text, the last entry
\* plus the last token's byte length is the byte length of the text; tokens
\* of byte lengths 3, 5, 2 give 0, 3, 8.
C16_TokenStarts ==
    pc = "mapped" =>
        /\ Len(starts) = Len(token_bytes)
        /\ starts # <<>> => starts[1] = 0
        /\ \A k \in 1..(Len(starts) - 1) :
            /\ starts[k + 1] = starts[k] + token_bytes[k]
            /\ starts[k] <= starts[k + 1]
        /\ (starts # <<>> /\ Sum(token_bytes) = text_bytes) =>
            Last(starts) + Last(token_bytes) = text_bytes
        /\ token_bytes = <<3, 5, 2>> => starts = <<0, 3, 8>>

\* The offsets of three tokens of 3, 5 and 2 bytes were computed.
C16_Witness ==
    /\ pc = "mapped"
    /\ token_bytes = <<3, 5, 2>>
    /\ text_bytes = 10
    /\ Len(starts) = 3

(***************************************************************************)
(* The savings fields of the JSON results of app.py.  The token counts     *)
(* come from the tokenizer; an empty text has 0 tokens.                    *)
(***************************************************************************)
MaxTokenCount == 6

ZeroDivisionError == "ZeroDivisionError"

Endpoints == {"compress_c", "compress_prompt", "compress_combined"}

InitReport ==
    /\ pc = "jsonify"
    /\ NoMinify
    /\ NoPrompt
    /\ NoNew
    /\ NoText
    /\ NoTokens
    /\ NoWorkers
    /\ endpoint \in Endpoints
    /\ original_tokens \in 0..MaxTokenCount
    /\ compressed_tokens \in 0..MaxTokenCount
    /\ response = NoValue

\* round(a / b) of Python for b > 0: to the nearest integer, a tie to the
\* even one.  The float arithmetic of line 99 can round a tie the other
\* way; a tie in tenths of a percent needs original_tokens to be a multiple
\* of 16, beyond MaxTokenCount.
RoundDiv(a, b) ==
    LET q == a \div b
        r == a - q * b
    IN  IF 2 * r < b THEN q
        ELSE IF 2 * r > b THEN q + 1
        ELSE IF q % 2 = 0 THEN q ELSE q + 1

\* round((1 - compressed_tokens / original_tokens) * 100, 1), in tenths of
\* a percent; the division raises when original_tokens is 0.
Percentage(o, c) ==
    IF o = 0 THEN [raised |-> TRUE, tenths |-> 0]
    ELSE [raised |-> FALSE, tenths |-> RoundDiv(1000 * (o - c), o)]

\* The percentage without the guard on original_tokens.
SavingsPercentageUnguarded(o, c) == Percentage(o, c)

\* ... if original_tokens > 0 else 0
SavingsPercentage(o, c) ==
    IF o > 0 THEN Percentage(o, c) ELSE [raised |-> FALSE, tenths |-> 0]

\* The 'savings' and 'savings_percentage' entries of the jsonify argument.
Jsonify ==
    LET pct == SavingsPercentage(original_tokens, compressed_tokens)
    IN  /\ response' =
            IF pct.raised THEN ZeroDivisionError
            ELSE [savings |-> original_tokens - compressed_tokens,
                  savings_percentage |-> pct.tenths]
        /\ pc' = IF pct.raised THEN "raised" ELSE "responded"
        /\ UNCHANGED <<mvars, pvars, nvars, tvars, kvars, cvars, endpoint,
                       original_tokens, compressed_tokens>>

\* app.py lines 92-100
RespondCompressC ==
    pc = "jsonify" /\ endpoint = "compress_c" /\ Jsonify

\* app.py lines 118-126
RespondCompressPrompt ==
    pc = "jsonify" /\ endpoint = "compress_prompt" /\ Jsonify

\* app.py lines 190-206
RespondCompressCombined ==
    pc = "jsonify" /\ endpoint = "compress_combined" /\ Jsonify

NextReport ==
    \/ RespondCompressC
    \/ RespondCompressPrompt
    \/ RespondCompressCombined

SpecReport == InitReport /\ [][NextReport]_vars

\* C17: in every result of compress_c, compress_prompt and
\* compress_combined, savings is original_tokens - compressed_tokens and
\* savings_percentage is 0 whenever original_tokens is 0; building the
\* result never divides by zero.
C17_Savings ==
    /\ pc # "raised"
    /\ pc = "responded" =>
        /\ response.savings + compressed_tokens = original_tokens
        /\ original_tokens = 0 => response.savings_percentage = 0

\* A result was built for a text of no tokens.
C17_Witness ==
    /\ pc = "responded"
    /\ original_tokens = 0
    /\ response.savings_percentage = 0

(***************************************************************************)
(* Concurrent minify_c calls: each worker runs the loop of minify_c on its *)
(* own argument, one iteration at a time, in any interleaving.             *)
(***************************************************************************)
MaxCallLen == 2

Workers == {1, 2}

CallAlphabet == {"a", " ", "/", "\""}

CallInputs == Strings(CallAlphabet, MaxCallLen)

\* lines 25-31: a call with its argument and fresh locals.
Call(c0) == [code |-> c0, locals |-> ScanInit, ret |-> NoValue]

InitConcurrent ==
    /\ pc = "serve"
    /\ NoMinify
    /\ NoPrompt
    /\ NoNew
    /\ NoText
    /\ NoTokens
    /\ NoReport
    /\ workers \in [Workers -> {Call(c0) : c0 \in CallInputs}]
    /\ overlapped = FALSE

\* A scanner whose list out is one object shared by all calls.
StoreLocalsSharedOut(ws, w, s) ==
    [v \in DOMAIN ws |->
        IF v = w THEN [ws[v] EXCEPT !.locals = s]
        ELSE [ws[v] EXCEPT !.locals.out = s.out]]

\* out, i, state and at_line_start are locals of the call (lines 27-31):
\* an iteration of one call assigns only that call's.
StoreLocals(ws, w, s) == [ws EXCEPT ![w].locals = s]

\* Call w is between its first iteration and its return.
UnderWay(w) == workers[w].locals.i > 0 /\ workers[w].ret = NoValue

\* One iteration of the loop of call w (lines 33-141).
WorkerIterate(w) ==
    /\ pc = "serve"
    /\ workers[w].ret = NoValue
    /\ ~workers[w].locals.exc
    /\ workers[w].locals.i < Len(workers[w].code)
    /\ workers' =
        StoreLocals(workers, w, ScanStep(workers[w].code, workers[w].locals))
    /\ overlapped' = (overlapped \/ \E v \in Workers \ {w} : UnderWay(v))
    /\ UNCHANGED <<pc, mvars, pvars, nvars, tvars, kvars, rvars>>

\* line 143 of call w
WorkerReturn(w) ==
    /\ pc = "serve"
    /\ workers[w].ret = NoValue
    /\ ~workers[w].locals.exc
    /\ ~(workers[w].locals.i < Len(workers[w].code))
    /\ workers' = [workers EXCEPT ![w].ret = workers[w].locals.out]
    /\ UNCHANGED <<pc, mvars, pvars, nvars, tvars, kvars, rvars, overlapped>>

NextConcurrent ==
    \/ \E w \in Workers : WorkerIterate(w)
    \/ \E w \in Workers : WorkerReturn(w)

SpecConcurrent == InitConcurrent /\ [][NextConcurrent]_vars

\* C18: minify_c calls are independent and deterministic: in any
\* interleaving of concurrent calls, each call returns what minify_c
\* returns for its argument when run alone.
C18_Independent ==
    \A w \in DOMAIN workers :
        workers[w].ret # NoValue => workers[w].ret = minify_c(workers[w].code)

\* Two calls with different arguments have both returned, after one of
\* them took a step while the other was under way.
C18_Witness ==
    /\ pc = "serve"
    /\ overlapped
    /\ workers[1].code # workers[2].code
    /\ \A w \in Workers : workers[w].ret # NoValue
    /\ workers[1].ret = minify_c(workers[1].code)
    /\ workers[2].ret = minify_c(workers[2].code)
    /\ workers[1].ret # <<>>
    /\ workers[2].ret # <<>>

\* The scanner is in NORMAL in front of a `#`.
AtHash == pc = "scan" /\ state = NORMAL /\ i < Len(code) /\ At(code, i) = "#"

\* The 1-based position of the last newline consumed so far, 0 if none.
LastNewline == SetMax({0} \cup {k \in 1..i : code[k] = "\n"})

\* Some character consumed since the last newline was emitted.
EmittedOnLine == \E k \in (LastNewline + 1)..i : Emitted(k)

\* Only whitespace and removed comments were consumed since the last newline.
BlankSoFar ==
    \A k \in (LastNewline + 1)..i :
        \/ cls[k] \in {LINE_COMMENT, BLOCK_COMMENT}
        \/ cls[k] = NORMAL /\ isspace(code[k])

\* C19: a `#` met in NORMAL starts a PREPROCESSOR directive only at the start
\* of a line, when nothing but whitespace and removed comments precedes it
\* since the last newline or the start of the input; a `#` that follows an
\* emitted character on the same line is emitted as an ordinary character
\* and the scanner stays in NORMAL.
C19_HashAtLineStart ==
    AtHash =>
        LET s == ScanStep(code, Cur)
        IN  /\ s.state = PREPROCESSOR => BlankSoFar
            /\ EmittedOnLine =>
                /\ s.state = NORMAL
                /\ s.out = Append(out, "#")

(***************************************************************************)
(* most_redundant_word on its own: one call on a sentence of at most       *)
(* MaxPhraseLen characters, with the similarity scores the embedding       *)
(* provider gives the candidates.                                          *)
(***************************************************************************)
MaxPhraseLen == 5
MaxThreshold == 3
MaxScore == 2

PhraseAlphabet == {"a", "b", " ", ","}

Phrases == Strings(PhraseAlphabet, MaxPhraseLen)

Scores == 0..MaxScore

InitWord ==
    /\ pc = "word"
    /\ NoMinify
    /\ NoPrompt
    /\ NoText
    /\ NoTokens
    /\ NoReport
    /\ NoWorkers
    /\ NoPack
    /\ NoElite
    /\ phrase \in Phrases
    /\ threshold \in 0..MaxThreshold
    /\ sims = <<>>
    /\ answer = NoValue

\* The last index of the highest score.
ArgmaxLast(v) ==
    CHOOSE k \in 1..Len(v) :
        /\ \A j \in 1..Len(v) : v[j] <= v[k]
        /\ \A j \in (k + 1)..Len(v) : v[j] < v[k]

\* int(np.argmax(sims)), 1-based: the first index of the highest score.
Argmax(v) ==
    CHOOSE k \in 1..Len(v) :
        /\ \A j \in 1..Len(v) : v[j] <= v[k]
        /\ \A j \in 1..(k - 1) : v[j] < v[k]

\* lines 12-47: sims has one score for each candidate kept at lines 27-31;
\* none is computed when the call returns at line 16.
MostRedundantWord ==
    /\ pc = "word"
    /\ LET n == IF Len(word_spans(phrase)) < threshold THEN 0
                ELSE Len(Meta(phrase))
       IN  \E v \in [1..n -> Scores] :
            LET r == most_redundant_word(phrase, 32, threshold,
                        IF n = 0 THEN 1 ELSE Argmax(v))
            IN  /\ sims' = v
                /\ answer' = r
                /\ pc' = IF r.exc THEN "raised" ELSE "answered"
    /\ UNCHANGED <<mvars, pvars, tvars, kvars, rvars, cvars, fvars, evars,
                   phrase, threshold>>

NextWord == MostRedundantWord

SpecWord == InitWord /\ [][NextWord]_vars

\* The call removed a word.
Removed == pc = "answered" /\ answer.word # None

\* C21: most_redundant_word removes the word whose candidate sentence has
\* the highest similarity score among the non-blank candidates; when several
\* candidates share the highest score, the leftmost word span is removed.
C21_HighestLeftmost ==
    Removed =>
        /\ Len(sims) = Len(Meta(phrase))
        /\ \E k \in 1..Len(sims) :
            /\ \A j \in 1..Len(sims) : sims[j] <= sims[k]
            /\ \A j \in 1..(k - 1) : sims[j] < sims[k]
            /\ answer.word = Meta(phrase)[k].word
            /\ answer.reduced =
                remove_word_at_span(phrase, Meta(phrase)[k].start,
                                    Meta(phrase)[k].end)

\* Two different words share the highest score and the left one was removed.
C21_Witness ==
    /\ Removed
    /\ Len(sims) >= 2
    /\ sims[1] = sims[2]
    /\ sims[1] = MaxScore
    /\ Meta(phrase)[1].word # Meta(phrase)[2].word
    /\ answer.word = Meta(phrase)[1].word

\* The sentence passes the threshold test of line 15 and every candidate is
\* empty or all whitespace: the candidate pool is empty.
EmptyPool ==
    /\ Len(word_spans(phrase)) >= threshold
    /\ Meta(phrase) = <<>>

\* C22: if every candidate of a sentence is empty or all whitespace (as for
\* a one-word sentence with min_words <= 1), most_redundant_word does not
\* raise: it returns the sentence unchanged with no removed word.
C22_EmptyPoolStops ==
    (pc # "word" /\ EmptyPool) =>
        /\ pc = "answered"
        /\ answer.reduced = phrase
        /\ answer.word = None

\* C28: every call of most_redundant_word that removes a word returns a
\* sentence that is strictly shorter in characters and has exactly one word
\* span fewer than its argument: no two words are merged, none is split.
C28_OneWordFewer ==
    Removed =>
        /\ Len(answer.reduced) < Len(phrase)
        /\ WordCount(answer.reduced) = WordCount(phrase) - 1

\* A word between two other words was removed.
C28_Witness ==
    /\ Removed
    /\ WordCount(phrase) = 3
    /\ answer.word = Meta(phrase)[2].word
    /\ sims[2] > sims[1]
    /\ sims[2] > sims[3]
    /\ WordCount(answer.reduced) = 2

RECURSIVE RunToNormal(_, _)
\* The iterations from scanner value s up to the one that returns to NORMAL,
\* or to the end of the input.
RunToNormal(c0, s) ==
    IF s.exc \/ s.state = NORMAL \/ ~(s.i < Len(c0)) THEN s
    ELSE RunToNormal(c0, ScanStep(c0, s))

\* The scanner is in NORMAL in front of a block comment opener.
AtBlockComment ==
    /\ pc = "scan"
    /\ state = NORMAL
    /\ i < Len(code)
    /\ NormalBranch(code, Cur) = "block_comment"

\* The 0-based positions after the opener at j where a `*/` starts.
Closers(c0, j) ==
    {e \in (j + 2)..(Len(c0) - 2) : At(c0, e) = "*" /\ At(c0, e + 1) = "/"}

\* C23: from a block comment opener, minify_c discards every character up to
\* and including the first `*/` that starts after the `/*` and is then in
\* NORMAL again; an inner `/*` changes nothing and the `*` of the opener is
\* not reused, so `/*/` alone does not close the comment; without a `*/` the
\* rest of the input is discarded.
C23_BlockComment ==
    AtBlockComment =>
        LET s == RunToNormal(code, ScanStep(code, Cur))
            ends == Closers(code, i)
        IN  /\ ~s.exc
            /\ s.out = out
            /\ \A k \in (i + 1)..s.i : s.cls[k] = BLOCK_COMMENT
            /\ IF ends = {}
                THEN s.i = Len(code) /\ s.state = BLOCK_COMMENT
                ELSE s.i = SetMin(ends) + 2 /\ s.state = NORMAL

\* The comment of "/*/*/a" has been scanned: `/*/` did not close it, the
\* inner `/*` did not open another, and the `*/` at its end closed it.
C23_Witness ==
    /\ pc = "scan"
    /\ code = <<"/", "*", "/", "*", "/", "a">>
    /\ i = 5
    /\ state = NORMAL
    /\ out = <<>>
    /\ \A k \in 1..5 : cls[k] = BLOCK_COMMENT

\* The scanner is in NORMAL in front of the opening quote of a literal.
AtLiteral ==
    /\ pc = "scan"
    /\ state = NORMAL
    /\ i < Len(code)
    /\ NormalBranch(code, Cur) \in {"string", "char"}

RECURSIVE Backslashes(_, _, _)
\* The number of consecutive backslashes right before 0-based position e,
\* none of them before position lo.
Backslashes(c0, e, lo) ==
    IF e > lo /\ At(c0, e - 1) = "\\" THEN 1 + Backslashes(c0, e - 1, lo)
    ELSE 0

\* The 0-based positions after the opening quote at j of the quotes of the
\* same kind that an even number of backslashes precedes.
Unescaped(c0, j) ==
    {e \in (j + 1)..(Len(c0) - 1) :
        /\ At(c0, e) = At(c0, j)
        /\ Backslashes(c0, e, j + 1) % 2 = 0}

\* C24: in STRING and in CHAR state a backslash and the character after it
\* are copied as a pair, so a quote after an odd number of backslashes does
\* not end the literal; the state is NORMAL again exactly after the first
\* unescaped matching quote, the other kind of quote does not end the
\* literal, and everything from the opening quote on is copied as it is.
C24_LiteralEnd ==
    AtLiteral =>
        LET s == RunToNormal(code, ScanStep(code, Cur))
            ends == Unescaped(code, i)
        IN  /\ ~s.exc
            /\ s.out = out \o Slice(code, i, s.i)
            /\ IF ends = {}
                THEN /\ s.i = Len(code)
                     /\ s.state = (IF At(code, i) = "\"" THEN STRING_STATE
                                   ELSE CHAR)
                ELSE s.i = SetMin(ends) + 1 /\ s.state = NORMAL

\* The string "\"" (an escaped quote inside) has been scanned up to its
\* closing quote.
C24_Witness ==
    /\ pc = "scan"
    /\ code = <<"\"", "\\", "\"", "\"">>
    /\ i = 4
    /\ state = NORMAL
    /\ out = code

-----------------------------------------------------------------------------
(* The frame of compress_prompt *)

RECURSIVE Concatenated(_, _, _)
\* reds[1] + delimiter 1 + ... + reds[n] + delimiter n
Concatenated(reds, ps, n) ==
    IF n = 0 THEN <<>>
    ELSE Concatenated(reds, ps, n - 1) \o reds[n] \o ps[n][2]

\* C25: what compress_prompt returns is the concatenation, in order, of each
\* segment's reduced sentence followed by the delimiter the segmenter
\* returned with it, unmodified; and the reduction of a segment reads that
\* sentence, the ratio and min_words only: it starts from the sentence,
\* every later value is a result of most_redundant_word on the value before
\* it while the ratio test against the sentence held, and it ends when the
\* loop condition on that sentence is false.
C25_Frame ==
    /\ pc = "returned" =>
        /\ Len(reduced) = Len(parts)
        /\ compressed_prompt = Concatenated(reduced, parts, Len(parts))
    /\ (pc = "while" /\ calls = 0) => reduced_sentence = parts[part][1]
    /\ (pc = "while" /\ calls > 0) =>
        /\ AboveRatio(before, parts[part][1], ratio)
        /\ \E y \in CallMostRedundantWord(before, min_words) :
            /\ y.reduced = reduced_sentence
            /\ (y.word = None) <=> (removed_word = None)
    /\ Halted =>
        /\ reduced[part] = reduced_sentence
        /\ ~AboveRatio(reduced_sentence, parts[part][1], ratio)
                \/ removed_word = None

\* A prompt of two segments was returned, the first one shortened and
\* followed by its delimiter.
C25_Witness ==
    /\ pc = "returned"
    /\ Len(parts) = 2
    /\ reduced[1] # parts[1][1]
    /\ parts[1][2] = <<".", " ">>

-----------------------------------------------------------------------------
(* Termination and the state machine of minify_c *)

RECURSIVE Remaining(_, _)
\* The number of iterations `while i < n` still makes from scanner value s.
Remaining(c0, s) ==
    IF s.exc \/ ~(s.i < Len(c0)) THEN 0
    ELSE 1 + Remaining(c0, ScanStep(c0, s))

\* C26: the scan loop of minify_c terminates for every input: i never
\* passes len(code), every iteration advances i by at least 1 and not past
\* len(code), and from every position the loop makes at most as many
\* iterations as there are characters left, so at most len(code) in all.
C26_Terminates ==
    pc = "scan" =>
        /\ i <= Len(code)
        /\ i < Len(code) =>
            LET s == ScanStep(code, Cur)
            IN  i + 1 <= s.i /\ s.i <= Len(code)
        /\ Remaining(code, Cur) <= Len(code) - i

\* A scan ended at len(code) after fewer iterations than characters: some
\* iteration consumed a lexeme of two characters.
C26_Witness ==
    /\ Done
    /\ i = Len(code)
    /\ Len(code) >= 4
    /\ Remaining(code, ScanInit) < Len(code)

\* C27: the state of minify_c is always exactly one of the six ScanState
\* values, the scan starts in NORMAL, and every change of state has
\* NORMAL on one side: never directly from one non-NORMAL state to another.
C27_StateChanges ==
    /\ [](state \in State /\ ((pc = "scan" /\ i = 0) => state = NORMAL))
    /\ [][state' # state => (state = NORMAL \/ state' = NORMAL)]_vars

\* The scanner has been in a line comment and in a string, with NORMAL
\* between them.
C27_Witness ==
    /\ pc = "scan"
    /\ state = STRING_STATE
    /\ \E k \in 1..Len(cls) : cls[k] = LINE_COMMENT

-----------------------------------------------------------------------------
(* pack_files (compaqt/packer.py) *)

MaxFiles == 3

MaxFileTokens == 3

MaxBudget == 70

\* line 133
header_overhead_per_file == 20

\* The lists pack_files is called with.  A file is its name and what
\* count_tokens(minimize_code(content)) gives for it (lines 112-113); the
\* k-th file is named k.
FileLists ==
    UNION {{[k \in 1..m |-> [name |-> k, minimized_tokens |-> t[k]]] :
                t \in [1..m -> 0..MaxFileTokens]} : m \in 0..MaxFiles}

InitPack ==
    /\ pc = "pack"
    /\ NoMinify
    /\ NoPrompt
    /\ NoText
    /\ NoTokens
    /\ NoReport
    /\ NoWorkers
    /\ NoWord
    /\ NoElite
    /\ files \in FileLists
    /\ token_budget \in 0..MaxBudget
    /\ minimized_files = <<>>
    /\ position = 0
    /\ included_files = <<>>
    /\ excluded_files = <<>>
    /\ current_tokens = 0

RECURSIVE InsertDescending(_, _)
\* f put behind every element of the descending list fs that is not
\* smaller: list.sort is stable, also with reverse=True.
InsertDescending(fs, f) ==
    IF fs = <<>> THEN <<f>>
    ELSE IF Head(fs).minimized_tokens >= f.minimized_tokens
        THEN <<Head(fs)>> \o InsertDescending(Tail(fs), f)
    ELSE <<f>> \o fs

RECURSIVE SortDescending(_, _)
\* line 124: the first n elements of fs, sorted.
SortDescending(fs, n) ==
    IF n = 0 THEN <<>>
    ELSE InsertDescending(SortDescending(fs, n - 1), fs[n])

\* lines 110-133
MinimizeAndSort ==
    /\ pc = "pack"
    /\ minimized_files' = SortDescending(files, Len(files))
    /\ included_files' = <<>>
    /\ excluded_files' = <<>>
    /\ current_tokens' = 0
    /\ position' = 0
    /\ pc' = "packing"
    /\ UNCHANGED <<mvars, pvars, tvars, kvars, rvars, cvars, wvars, evars,
                   files, token_budget>>

\* A fit test that forgets the header's tokens.
FitsWithoutHeader(f) ==
    current_tokens + f.minimized_tokens <= token_budget

\* lines 136-138
Fits(f) ==
    current_tokens + (f.minimized_tokens + header_overhead_per_file)
        <= token_budget

\* lines 135-149
Include ==
    /\ pc = "packing"
    /\ position < Len(minimized_files)
    /\ LET f == minimized_files[position + 1]
       IN  /\ Fits(f)
           /\ included_files' = Append(included_files,
                [name |-> f.name, packed_tokens |-> f.minimized_tokens])
           /\ current_tokens' =
                current_tokens + (f.minimized_tokens + header_overhead_per_file)
    /\ position' = position + 1
    /\ UNCHANGED <<pc, mvars, pvars, tvars, kvars, rvars, cvars, wvars,
                   evars, files, token_budget, minimized_files,
                   excluded_files>>

\* lines 135-138, 150-155
Exclude ==
    /\ pc = "packing"
    /\ position < Len(minimized_files)
    /\ LET f == minimized_files[position + 1]
       IN  /\ ~Fits(f)
           /\ excluded_files' = Append(excluded_files,
                [name |-> f.name, tokens |-> f.minimized_tokens,
                 reason |-> "Exceeded token budget"])
    /\ position' = position + 1
    /\ UNCHANGED <<pc, mvars, pvars, tvars, kvars, rvars, cvars, wvars,
                   evars, files, token_budget, minimized_files,
                   included_files, current_tokens>>

\* lines 157-177
ReturnPack ==
    /\ pc = "packing"
    /\ position = Len(minimized_files)
    /\ pc' = "packed"
    /\ UNCHANGED <<mvars, pvars, ovars>>

NextPack ==
    \/ MinimizeAndSort
    \/ Include
    \/ Exclude
    \/ ReturnPack

SpecPack == InitPack /\ [][NextPack]_vars

RECURSIVE IncludedTotal(_, _)
\* The sum of packed_tokens + 20 over those of the first n entries of
\* included_files whose name is in S.
IncludedTotal(n, S) ==
    IF n = 0 THEN 0
    ELSE IncludedTotal(n - 1, S) +
            (IF included_files[n].name \in S
                THEN included_files[n].packed_tokens + 20 ELSE 0)

\* The names of the entries of a list.
Names(fs) == {fs[k].name : k \in 1..Len(fs)}

\* How many entries of a list have the name.
Entries(fs, name) == Cardinality({k \in 1..Len(fs) : fs[k].name = name})

\* The names of the files considered before the one at place q of the
\* order of consideration.
ConsideredBefore(q) == {minimized_files[k].name : k \in 1..(q - 1)}

-----------------------------------------------------------------------------
(* compress_combined with Elite+ (app.py, compaqt/elite_plus.py) *)

\* How ElitePlusEncoder.compress can end (elite_plus.py lines 37-98): the
\* Node.js process decides.
Outcomes ==
    {"ok", "no_code", "returncode", "not_success", "timeout", "json_error",
     "error"}

\* What the Elite+ encoder can print as code: the Node.js script decides.
EliteOutputs == {<<"a">>, <<"~", "1">>}

RECURSIVE LStrip(_)
LStrip(s) == IF s # <<>> /\ isspace(Head(s)) THEN LStrip(Tail(s)) ELSE s

RECURSIVE RStrip(_)
RStrip(s) ==
    IF s # <<>> /\ isspace(Last(s)) THEN RStrip(SubSeq(s, 1, Len(s) - 1))
    ELSE s

\* str.strip()
Strip(s) == RStrip(LStrip(s))

\* app.py lines 131-136: the request's JSON; is_available() is taken to
\* answer the same throughout one request.
InitCombined ==
    /\ pc = "combined"
    /\ NoMinify
    /\ NoPrompt
    /\ NoText
    /\ NoTokens
    /\ NoReport
    /\ NoWorkers
    /\ NoWord
    /\ NoPack
    /\ request \in [code : CallInputs, elite_plus : BOOLEAN]
    /\ encoder \in [available : BOOLEAN, outcome : Outcomes,
                    output : EliteOutputs]
    /\ elite_result = NoValue
    /\ minimized_code = <<>>
    /\ producer = NoValue
    /\ flags = NoValue

\* app.py line 132: code = data.get('code', '').strip()
StrippedCode == Strip(request.code)

\* elite_plus.py lines 37-98: None, or a dict with the code printed.
Compress ==
    IF ~encoder.available THEN [returned |-> None, code |-> <<>>]
    ELSE IF encoder.outcome = "ok"
        THEN [returned |-> "dict", code |-> encoder.output]
    ELSE IF encoder.outcome = "no_code"
        THEN [returned |-> "dict", code |-> <<>>]
    ELSE [returned |-> None, code |-> <<>>]

\* app.py line 152: if elite_result and elite_result.get('code')
EliteSucceeded ==
    elite_result.returned # None /\ elite_result.code # <<>>

\* app.py line 145: no code in the request.
NoCode ==
    /\ pc = "combined"
    /\ StrippedCode = <<>>
    /\ pc' = "respond"
    /\ UNCHANGED <<mvars, pvars, ovars>>

\* app.py lines 150-151
CallElitePlus ==
    /\ pc = "combined"
    /\ StrippedCode # <<>>
    /\ request.elite_plus /\ encoder.available
    /\ elite_result' = Compress
    /\ pc' = "elite"
    /\ UNCHANGED <<mvars, pvars, tvars, kvars, rvars, cvars, wvars, fvars,
                   request, encoder, minimized_code, producer, flags>>

\* app.py lines 152-153
UseElitePlus ==
    /\ pc = "elite"
    /\ EliteSucceeded
    /\ minimized_code' = elite_result.code
    /\ producer' = "elite_plus"
    /\ pc' = "respond"
    /\ UNCHANGED <<mvars, pvars, tvars, kvars, rvars, cvars, wvars, fvars,
                   request, encoder, elite_result, flags>>

\* app.py lines 154-156
FallBack ==
    /\ pc = "elite"
    /\ ~EliteSucceeded
    /\ minimized_code' = minify_c(StrippedCode)
    /\ producer' = "minify_c"
    /\ pc' = "respond"
    /\ UNCHANGED <<mvars, pvars, tvars, kvars, rvars, cvars, wvars, fvars,
                   request, encoder, elite_result, flags>>

\* app.py lines 157-158
MinifyOnly ==
    /\ pc = "combined"
    /\ StrippedCode # <<>>
    /\ ~(request.elite_plus /\ encoder.available)
    /\ minimized_code' = minify_c(StrippedCode)
    /\ producer' = "minify_c"
    /\ pc' = "respond"
    /\ UNCHANGED <<mvars, pvars, tvars, kvars, rvars, cvars, wvars, fvars,
                   request, encoder, elite_result, flags>>

\* app.py lines 190-206
RespondCombined ==
    /\ pc = "respond"
    /\ flags' =
        [elite_plus_used |->
            request.elite_plus /\ encoder.available /\ StrippedCode # <<>>,
         elite_plus_available |-> encoder.available]
    /\ pc' = "responded"
    /\ UNCHANGED <<mvars, pvars, tvars, kvars, rvars, cvars, wvars, fvars,
                   request, encoder, elite_result, minimized_code, producer>>

NextCombined ==
    \/ NoCode
    \/ CallElitePlus
    \/ UseElitePlus
    \/ FallBack
    \/ MinifyOnly
    \/ RespondCombined

SpecCombined == InitCombined /\ [][NextCombined]_vars

\* Elite+ was requested for some code and is unavailable, failed or returned
\* no code.
ElitePlusFailed ==
    /\ request.elite_plus
    /\ StrippedCode # <<>>
    /\ \/ ~encoder.available
       \/ encoder.outcome # "ok"

\* C30: in the response of compress_combined, when Elite+ was requested but
\* is unavailable, failed or returned no code, minimized_code is
\* minify_c(code); and elite_plus_used is true only when the returned
\* minimized_code was produced by the Elite+ encoder.
C30_ElitePlusUsed ==
    pc = "responded" =>
        /\ ElitePlusFailed =>
            /\ minimized_code = minify_c(StrippedCode)
            /\ producer = "minify_c"
        /\ flags.elite_plus_used => producer = "elite_plus"

====
